---- MODULE Spec2Model ----
(***************************************************************************)
(* A model of the eir backend (src/app/main.py): the patient import        *)
(* workflow with its cascading observation import, the two search          *)
(* endpoints and the bearer-token gate, over the two tables of             *)
(* src/app/models.py.                                                      *)
(*                                                                         *)
(* A request is a handler invocation; its local variables are the fields   *)
(* of req[r] and its position in the handler is pc[r].  A handler is cut   *)
(* where it can be interleaved with another invocation: at every await on  *)
(* the registry and, for invocations served by different worker            *)
(* processes, between two database statements.                             *)
(*                                                                         *)
(* Spec serves one request at a time.  SpecWorkers serves imports by two    *)
(* workers at once, on registry answers of at most one entry.  Within one  *)
(* event loop the loop over the entries has no await and runs as a whole;  *)
(* it is two workers on one database that interleave between statements.   *)
(*                                                                         *)
(* Strings that the code only compares are TLA+ strings; first names,      *)
(* which the code strips, are sequences of one-character strings.          *)
(* get_session runs before the gate and only constructs a Session, which   *)
(* opens no connection until its first statement.                          *)
(***************************************************************************)
EXTENDS Integers, Sequences, FiniteSets, TLC

VARIABLES patients, observations, pc, req

vars == <<patients, observations, pc, req>>

(***************************************************************************)
(* Bounds of the model.                                                    *)
(***************************************************************************)
\* longest "entry" list of a registry patient response
MaxEntries == 2
\* longest "entry" list of a registry observation response
MaxObsEntries == 2
\* a new import is accepted only while the patient table is shorter than this
MaxRows == 2

Requests == {"a", "b"}

\* external registry identifiers
ExtIds == {"1419", "1420"}

(***************************************************************************)
(* Python values.                                                          *)
(***************************************************************************)
\* None where a str is expected (Optional[str] query parameters)
None == "None"
\* None where a first name (a sequence of characters) is expected
NoneName == <<"None">>
\* None where an internal key is expected
NoneKey == -1

\* dict.get(k, default)
Get(d, k, default) == IF k \in DOMAIN d THEN d[k] ELSE default

Whitespace == {" "}

RECURSIVE LStrip(_)
LStrip(s) == IF s # <<>> /\ Head(s) \in Whitespace THEN LStrip(Tail(s)) ELSE s

RECURSIVE RStrip(_)
RStrip(s) ==
    IF s # <<>> /\ s[Len(s)] \in Whitespace
        THEN RStrip(SubSeq(s, 1, Len(s) - 1))
        ELSE s

\* str.strip()
Strip(s) == RStrip(LStrip(s))

\* all sequences over S of length at most n
SeqsUpTo(S, n) == UNION {[1..k -> S] : k \in 0..n}

(***************************************************************************)
(* What the registry can answer.                                           *)
(***************************************************************************)
\* a resource without a name, one whose first given name is " J ", and
\* one without a gender
NameVariants ==
    { [gender |-> "male"],
      [family |-> "Doe"],
      [gender |-> "male",
       name |-> <<[given |-> << <<" ", "J", " ">>, <<"Q">> >>, family |-> "Doe"]>>] }

PatientEntries ==
    { [resource |-> [id |-> x, birthDate |-> "1990-01-01"] @@ nv] :
        x \in ExtIds, nv \in NameVariants }

PatientDocs ==
    { [resourceType |-> "Bundle"] }
    \cup { [resourceType |-> "Bundle", entry |-> es] :
            es \in SeqsUpTo(PatientEntries, MaxEntries) }

ObsResources ==
    { [id |-> "o"],
      [id |-> "o", resourceType |-> "Observation"],
      [id |-> "o", status |-> "final"],
      [id |-> "o", resourceType |-> "Observation", status |-> "final"] }

ObsEntries == { [resource |-> res] : res \in ObsResources }

ObsDocs ==
    LET base == { [resourceType |-> "Bundle"] }
                \cup { [resourceType |-> "Bundle", total |-> t] : t \in {0, 1} }
    IN  base
        \cup { b @@ [entry |-> es] :
                b \in base, es \in SeqsUpTo(ObsEntries, MaxObsEntries) }

Tokens == {"missing", "invalid", "valid"}

(***************************************************************************)
(* The access gate.                                                        *)
(***************************************************************************)
\* verify_token: a payload for a token that verifies, ValueError otherwise
verify_token(token) == IF token = "valid" THEN "payload" ELSE "ValueError"

\* a gate that lets every request through
get_current_user_open(token) == 200

\* 401 without a token (the bearer scheme) or when verification fails
get_current_user(token) ==
    IF token = "missing" THEN 401
    ELSE IF verify_token(token) = "ValueError" THEN 401
    ELSE 200

\* the detail of the 401
Unauthorized(token) ==
    IF token = "missing" THEN "Not authenticated" ELSE "Invalid token"

(***************************************************************************)
(* The persistence gateway.                                                *)
(***************************************************************************)
\* the surrogate key the store assigns to the next row of a table
NextKey(table) == Len(table) + 1

Rows(table) == {table[k] : k \in 1..Len(table)}

\* a lookup that never finds the row
ExistingPatient_miss(ext) == {}

\* select(Patient).where(Patient.patient_id == ext): the matching rows
ExistingPatient(ext) == {p \in Rows(patients) : p.patient_id = ext}

\* the commit of a patient row with None in a column declared str
IntegrityError(row) ==
    \E column \in {"patient_id", "gender", "birth_date"} : row[column] = None

\* session.get(Patient, key)
GetPatient(key) == {p \in Rows(patients) : p.id = key}

(***************************************************************************)
(* The resource extractor.                                                 *)
(***************************************************************************)
\* the candidate patient of a registry entry
ExtractPatient(entry) ==
    LET resource == Get(entry, "resource", <<>>)
        given_names == Get(Get(resource, "name", << <<>> >>)[1], "given", <<>>)
        first_name == IF given_names # <<>> THEN given_names[1] ELSE <<>>
    IN  [patient_id |-> Get(resource, "id", None),
         first_name |-> Strip(first_name),
         gender |-> Get(resource, "gender", None),
         birth_date |-> Get(resource, "birthDate", None)]

\* the branch condition of the observation import
ObservationsExist(doc) == Get(doc, "total", 0) > 0 /\ "entry" \in DOMAIN doc

\* the first entry is read from an empty list
IndexError(doc) == ObservationsExist(doc) /\ doc.entry = <<>>

\* the pair stored when an observation lacks its status too
ExtractObservation_nodefault(doc) ==
    IF ObservationsExist(doc)
        THEN LET resource == Get(doc.entry[1], "resource", <<>>)
             IN  <<Get(resource, "resourceType", "unknown"),
                   Get(resource, "status", "unknown")>>
        ELSE <<"unknown", "unknown">>

\* the (resource_type, status) pair of an observation response
ExtractObservation(doc) ==
    IF ObservationsExist(doc)
        THEN LET resource == Get(doc.entry[1], "resource", <<>>)
             IN  <<Get(resource, "resourceType", "unknown"),
                   Get(resource, "status", "unknown")>>
        ELSE <<"unknown", "empty">>

(***************************************************************************)
(* Requests.                                                               *)
(***************************************************************************)
NoRow == [id |-> 0]

Fresh ==
    [kind |-> "none", token |-> "missing", status |-> 0, body |-> <<>>,
     detail |-> "", patient_id |-> None, first_name |-> NoneName,
     key |-> NoneKey,
     patients_data |-> <<>>, i |-> 0, patient |-> NoRow,
     saved_patient_ids |-> <<>>, j |-> 0,
     observations_data |-> <<>>, observation |-> NoRow,
     effects |-> {}, failure |-> "none",
     patients0 |-> <<>>, observations0 |-> <<>>]

Init ==
    /\ patients = <<>>
    /\ observations = <<>>
    /\ pc = [r \in Requests |-> "idle"]
    /\ req = [r \in Requests |-> Fresh]

\* a request as it enters its handler
Entering(kind, token) ==
    [Fresh EXCEPT !.kind = kind, !.token = token,
                  !.patients0 = patients, !.observations0 = observations]

Entries(r) == Get(req[r].patients_data, "entry", <<>>)

\* the import's return value
Summary(saved) == [total_saved |-> Len(saved), saved_patient_ids |-> saved]

Return(q, status, body) == [q EXCEPT !.status = status, !.body = body]

\* HTTPException(status_code, detail)
Fail(q, status, detail) == [q EXCEPT !.status = status, !.detail = detail]

Raise(q, failure) == [q EXCEPT !.status = 500, !.failure = failure]

Did(q, effect) == [q EXCEPT !.effects = @ \cup {effect}]

(***************************************************************************)
(* POST /imports/patients/{postal_code}.  The postal code only selects     *)
(* what the registry answers, and the registry's answer is any document.   *)
(***************************************************************************)
\* the gate, then the patient query is sent
ImportStart(r) ==
    /\ pc[r] = "idle"
    /\ \E token \in Tokens :
        LET q == Entering("import", token)
        IN  IF get_current_user(token) # 200
                THEN /\ req' = [req EXCEPT ![r] = Fail(q, 401, Unauthorized(token))]
                     /\ pc' = [pc EXCEPT ![r] = "done"]
                ELSE /\ Len(patients) < MaxRows
                     /\ req' = [req EXCEPT ![r] = Did(q, "registry")]
                     /\ pc' = [pc EXCEPT ![r] = "fetch_patients"]
    /\ UNCHANGED <<patients, observations>>

\* raise_for_status on the patient query
PatientsFetchFails(r) ==
    /\ pc[r] = "fetch_patients"
    /\ req' = [req EXCEPT ![r] = Raise(@, "registry")]
    /\ pc' = [pc EXCEPT ![r] = "done"]
    /\ UNCHANGED <<patients, observations>>

\* where the handler goes once entry q.i - 1 is dealt with: the next entry,
\* the first new patient's observation, or the return
Continue(r, q) ==
    IF q.i <= Len(Get(q.patients_data, "entry", <<>>))
        THEN /\ req' = [req EXCEPT ![r] = q]
             /\ pc' = [pc EXCEPT ![r] = "check"]
    ELSE IF q.saved_patient_ids # <<>>
        THEN /\ req' = [req EXCEPT ![r] = [q EXCEPT !.j = 1, !.patient = NoRow]]
             /\ pc' = [pc EXCEPT ![r] = "obs_get"]
    ELSE /\ req' = [req EXCEPT ![r] =
                        Return([q EXCEPT !.patient = NoRow], 200,
                               Summary(q.saved_patient_ids))]
         /\ pc' = [pc EXCEPT ![r] = "done"]

\* the patient query answers
PatientsResponse(r, docs) ==
    /\ pc[r] = "fetch_patients"
    /\ \E doc \in docs :
        Continue(r, [req[r] EXCEPT !.patients_data = doc, !.i = 1])
    /\ UNCHANGED <<patients, observations>>

\* the existence check of one entry
CheckExisting(r) ==
    /\ pc[r] = "check"
    /\ LET cand == ExtractPatient(Entries(r)[req[r].i])
           q == Did(req[r], "db_read")
       IN  IF ExistingPatient(cand.patient_id) # {}
               THEN Continue(r, [q EXCEPT !.i = @ + 1])
               ELSE /\ req' = [req EXCEPT ![r] = [q EXCEPT !.patient = cand]]
                    /\ pc' = [pc EXCEPT ![r] = "insert"]
    /\ UNCHANGED <<patients, observations>>

\* an insert that looks again and skips an external id the table holds by now
InsertPatient_unique(r) ==
    /\ pc[r] = "insert"
    /\ LET again == ExistingPatient(req[r].patient.patient_id)
           row == req[r].patient @@ [id |-> NextKey(patients)]
           q == Did(req[r], "db_write")
       IN  IF IntegrityError(row)
               THEN /\ patients' = patients
                    /\ req' = [req EXCEPT ![r] = Raise(@, "database")]
                    /\ pc' = [pc EXCEPT ![r] = "done"]
           ELSE IF again # {}
               THEN /\ patients' = patients
                    /\ Continue(r, [q EXCEPT !.i = @ + 1])
               ELSE /\ patients' = Append(patients, row)
                    /\ Continue(r, [q EXCEPT !.patient = row, !.i = @ + 1,
                                             !.saved_patient_ids = Append(@, row.id)])
    /\ UNCHANGED observations

\* add, commit, refresh, and the key is remembered; a commit the store
\* refuses raises and stores nothing
InsertPatient(r) ==
    /\ pc[r] = "insert"
    /\ LET row == req[r].patient @@ [id |-> NextKey(patients)]
           q == Did(req[r], "db_write")
       IN  IF IntegrityError(row)
               THEN /\ patients' = patients
                    /\ req' = [req EXCEPT ![r] = Raise(@, "database")]
                    /\ pc' = [pc EXCEPT ![r] = "done"]
               ELSE /\ patients' = Append(patients, row)
                    /\ Continue(r, [q EXCEPT !.patient = row, !.i = @ + 1,
                                             !.saved_patient_ids = Append(@, row.id)])
    /\ UNCHANGED observations

(***************************************************************************)
(* fetch_and_store_first_observation, once per new patient.                *)
(***************************************************************************)
\* a loop that returns after its first observation
ContinueObs_once(r, q) ==
    /\ req' = [req EXCEPT ![r] = Return(q, 200, Summary(q.saved_patient_ids))]
    /\ pc' = [pc EXCEPT ![r] = "done"]

\* where the handler goes once the observation of saved_patient_ids[q.j - 1]
\* is dealt with
ContinueObs(r, q) ==
    IF q.j <= Len(q.saved_patient_ids)
        THEN /\ req' = [req EXCEPT ![r] = q]
             /\ pc' = [pc EXCEPT ![r] = "obs_get"]
        ELSE /\ req' = [req EXCEPT ![r] =
                            Return(q, 200, Summary(q.saved_patient_ids))]
             /\ pc' = [pc EXCEPT ![r] = "done"]

\* the patient is resolved by key and the observation query is sent
ObsGet(r) ==
    /\ pc[r] = "obs_get"
    /\ LET found == GetPatient(req[r].saved_patient_ids[req[r].j])
           q == Did(req[r], "db_read")
       IN  IF found = {}
               THEN ContinueObs(r, [q EXCEPT !.j = @ + 1])
               ELSE /\ req' = [req EXCEPT ![r] =
                                   [Did(q, "registry") EXCEPT
                                        !.patient = CHOOSE p \in found : TRUE]]
                    /\ pc' = [pc EXCEPT ![r] = "fetch_obs"]
    /\ UNCHANGED <<patients, observations>>

\* raise_for_status on the observation query
ObsFetchFails(r) ==
    /\ pc[r] = "fetch_obs"
    /\ req' = [req EXCEPT ![r] = Raise(@, "registry")]
    /\ pc' = [pc EXCEPT ![r] = "done"]
    /\ UNCHANGED <<patients, observations>>

\* the observation query answers and the observation is stored
ObsResponse(r, docs) ==
    /\ pc[r] = "fetch_obs"
    /\ \E doc \in docs :
        LET q == [req[r] EXCEPT !.observations_data = doc]
        IN  IF IndexError(doc)
                THEN /\ req' = [req EXCEPT ![r] = Raise(q, "exception")]
                     /\ pc' = [pc EXCEPT ![r] = "done"]
                     /\ UNCHANGED observations
                ELSE LET pair == ExtractObservation(doc)
                         row == [id |-> NextKey(observations),
                                 patient_id |-> req[r].patient.id,
                                 resource_type |-> pair[1],
                                 status |-> pair[2]]
                     IN  /\ observations' = Append(observations, row)
                         /\ req' = [req EXCEPT ![r] =
                                        [Did(q, "db_write") EXCEPT
                                             !.observation = row]]
                         /\ pc' = [pc EXCEPT ![r] = "obs_stored"]
    /\ UNCHANGED patients

\* fetch_and_store_first_observation returns; its locals are gone
ObsReturn(r) ==
    /\ pc[r] = "obs_stored"
    /\ ContinueObs(r, [req[r] EXCEPT !.j = @ + 1, !.patient = NoRow,
                                     !.observations_data = <<>>,
                                     !.observation = NoRow])
    /\ UNCHANGED <<patients, observations>>

\* the response is delivered
Finish(r) ==
    /\ pc[r] = "done"
    /\ req' = [req EXCEPT ![r] = Fresh]
    /\ pc' = [pc EXCEPT ![r] = "idle"]
    /\ UNCHANGED <<patients, observations>>

(***************************************************************************)
(* GET /patients/search and GET /observations/search: no await, one        *)
(* SELECT each.                                                            *)
(***************************************************************************)
\* Python truth of an Optional[str]
Truthy(x) == x # None /\ x # ""

TruthyName(x) == x # NoneName /\ x # <<>>

PidFilters == {None, "", "9999"} \cup ExtIds

NameFilters == {NoneName, <<>>, <<"J">>, <<"Q">>}

KeyFilters == {NoneKey} \cup (0..MaxRows)

\* the guard with its second "not" dropped
MissingFilters_typo(patient_id, first_name) ==
    ~Truthy(patient_id) /\ TruthyName(first_name)

\* not patient_id and not first_name
MissingFilters(patient_id, first_name) ==
    ~Truthy(patient_id) /\ ~TruthyName(first_name)

\* a query that matches either filter
PatientQuery_either(patient_id, first_name) ==
    IF Truthy(patient_id) /\ TruthyName(first_name)
        THEN SelectSeq(patients, LAMBDA p : p.patient_id = patient_id
                                             \/ p.first_name = first_name)
    ELSE IF Truthy(patient_id)
        THEN SelectSeq(patients, LAMBDA p : p.patient_id = patient_id)
    ELSE IF TruthyName(first_name)
        THEN SelectSeq(patients, LAMBDA p : p.first_name = first_name)
    ELSE patients

\* the rows the patient query selects
PatientQuery(patient_id, first_name) ==
    IF Truthy(patient_id) /\ TruthyName(first_name)
        THEN SelectSeq(patients, LAMBDA p : p.patient_id = patient_id
                                             /\ p.first_name = first_name)
    ELSE IF Truthy(patient_id)
        THEN SelectSeq(patients, LAMBDA p : p.patient_id = patient_id)
    ELSE IF TruthyName(first_name)
        THEN SelectSeq(patients, LAMBDA p : p.first_name = first_name)
    ELSE patients

\* the rows the observation query selects; a key of 0 is the string "0"
ObservationQuery(key) ==
    IF key # NoneKey
        THEN SelectSeq(observations, LAMBDA o : o.patient_id = key)
        ELSE observations

SearchPatients(r) ==
    /\ pc[r] = "idle"
    /\ \E token \in Tokens, patient_id \in PidFilters, first_name \in NameFilters :
        LET q == [Entering("search_patients", token) EXCEPT
                      !.patient_id = patient_id, !.first_name = first_name]
            found == PatientQuery(patient_id, first_name)
        IN  req' = [req EXCEPT ![r] =
                IF get_current_user(token) # 200
                    THEN Fail(q, 401, Unauthorized(token))
                ELSE IF MissingFilters(patient_id, first_name)
                    THEN Fail(q, 400,
                              "Either 'patient_id' or 'first_name' must be provided.")
                ELSE IF found = <<>>
                    THEN Fail(Did(q, "db_read"), 404, "No matching patients found.")
                ELSE Return(Did(q, "db_read"), 200, found)]
    /\ pc' = [pc EXCEPT ![r] = "done"]
    /\ UNCHANGED <<patients, observations>>

SearchObservations(r) ==
    /\ pc[r] = "idle"
    /\ \E token \in Tokens, key \in KeyFilters :
        LET q == [Entering("search_observations", token) EXCEPT !.key = key]
            found == ObservationQuery(key)
        IN  req' = [req EXCEPT ![r] =
                IF get_current_user(token) # 200
                    THEN Fail(q, 401, Unauthorized(token))
                ELSE IF found = <<>>
                    THEN Fail(Did(q, "db_read"), 404,
                              "No matching observations found.")
                ELSE Return(Did(q, "db_read"), 200, found)]
    /\ pc' = [pc EXCEPT ![r] = "done"]
    /\ UNCHANGED <<patients, observations>>

(***************************************************************************)
(* The service.                                                            *)
(***************************************************************************)
\* no other request is in progress
Alone(r) == \A o \in Requests \ {r} : pc[o] = "idle"

\* one request at a time
Next ==
    \E r \in Requests :
        \/ Alone(r) /\ ImportStart(r)
        \/ PatientsFetchFails(r)
        \/ PatientsResponse(r, PatientDocs)
        \/ CheckExisting(r)
        \/ InsertPatient(r)
        \/ ObsGet(r)
        \/ ObsFetchFails(r)
        \/ ObsResponse(r, ObsDocs)
        \/ ObsReturn(r)
        \/ Alone(r) /\ SearchPatients(r)
        \/ Alone(r) /\ SearchObservations(r)
        \/ Finish(r)

Spec == Init /\ [][Next]_vars

\* the registry answers two workers' imports with one of a few documents
RacePatientDocs ==
    {d \in PatientDocs :
        /\ Len(Get(d, "entry", <<>>)) <= 1
        /\ \A k \in DOMAIN Get(d, "entry", <<>>) :
               "name" \notin DOMAIN d.entry[k].resource}

RaceObsDocs ==
    {d \in ObsDocs :
        "total" \in DOMAIN d /\ Len(Get(d, "entry", <<>>)) = d.total
        /\ \A k \in DOMAIN Get(d, "entry", <<>>) :
               DOMAIN d.entry[k].resource = {"id", "resourceType", "status"}}

\* imports served by several workers at once
NextWorkers ==
    \E r \in Requests :
        \/ ImportStart(r)
        \/ PatientsFetchFails(r)
        \/ PatientsResponse(r, RacePatientDocs)
        \/ CheckExisting(r)
        \/ InsertPatient(r)
        \/ ObsGet(r)
        \/ ObsFetchFails(r)
        \/ ObsResponse(r, RaceObsDocs)
        \/ ObsReturn(r)
        \/ Finish(r)

SpecWorkers == Init /\ [][NextWorkers]_vars

(***************************************************************************)
(* Properties.                                                             *)
(***************************************************************************)
IsImport(r) == req[r].kind = "import"

\* the import's patient query has answered
Answered(r) == IsImport(r) /\ req[r].patients_data # <<>>

EntryIds(r) == {Entries(r)[k].resource.id : k \in DOMAIN Entries(r)}

StoredIds(table) == {p.patient_id : p \in Rows(table)}

\* the rows a table gained since it was `before`
Gained(table, before) ==
    {table[k] : k \in (Len(before) + 1)..Len(table)}

\* the table only grew, by rows appended to `before`
Extends(table, before) ==
    Len(before) <= Len(table) /\ SubSeq(table, 1, Len(before)) = before

ObservationsOf(key) ==
    {k \in 1..Len(observations) : observations[k].patient_id = key}

NoDuplicateExternalId ==
    \A k, l \in 1..Len(patients) :
        patients[k].patient_id = patients[l].patient_id => k = l

C2_Idempotent ==
    /\ \A r \in Requests :
        (Answered(r) /\ EntryIds(r) \subseteq StoredIds(req[r].patients0))
        => /\ patients = req[r].patients0
           /\ observations = req[r].observations0
           /\ pc[r] = "done" => /\ req[r].status = 200
                                /\ req[r].body.total_saved = 0
    /\ NoDuplicateExternalId

C2_Witness ==
    \E r \in Requests :
        /\ pc[r] = "done" /\ Answered(r) /\ req[r].status = 200
        /\ Len(Entries(r)) = 2
        /\ EntryIds(r) \subseteq StoredIds(req[r].patients0)
        /\ req[r].body.total_saved = 0

\* C3: an import that ends in a registry failure, on the patient query or
\* on an observation query, leaves both tables as they were when it began.
C3_NothingPersistedOnFailure ==
    \A r \in Requests :
        (pc[r] = "done" /\ IsImport(r) /\ req[r].failure = "registry")
        => /\ patients = req[r].patients0
           /\ observations = req[r].observations0

\* C4: whenever no request is in progress, every patient row has exactly
\* one observation row that carries its internal key.
C4_OneObservationPerPatient ==
    (\A r \in Requests : pc[r] = "idle")
    => \A p \in Rows(patients) : Cardinality(ObservationsOf(p.id)) = 1

\* a response that reports total 0 or has no entry field
Empty(doc) == ("total" \in DOMAIN doc /\ doc.total = 0) \/ "entry" \notin DOMAIN doc

\* C5: an observation response that reports total 0 or has no entry field
\* is stored, as the patient's only observation row, with resource_type
\* "unknown" and status "empty"; the import never fails on such a response.
C5_Sentinel ==
    \A r \in Requests :
        /\ (pc[r] = "obs_stored" /\ Empty(req[r].observations_data))
           => /\ req[r].observation.resource_type = "unknown"
              /\ req[r].observation.status = "empty"
              /\ req[r].observation.patient_id = req[r].patient.id
              /\ req[r].observation \in Rows(observations)
              /\ Cardinality(ObservationsOf(req[r].patient.id)) = 1
        /\ (pc[r] = "done" /\ req[r].failure = "exception")
           => ~Empty(req[r].observations_data)

C5_Witness ==
    \E r \in Requests :
        /\ pc[r] = "obs_stored"
        /\ "total" \in DOMAIN req[r].observations_data
        /\ req[r].observations_data.total = 0
        /\ Len(Get(req[r].observations_data, "entry", <<>>)) = 2
        /\ req[r].observation.status = "empty"

\* C6: an observation response with at least one entry, whatever its total,
\* is stored with the first entry's resourceType and status (each "unknown"
\* when the entry omits it) and never as the ("unknown", "empty") sentinel.
C6_FirstEntryWins ==
    \A r \in Requests :
        ( /\ pc[r] = "obs_stored"
          /\ Get(req[r].observations_data, "entry", <<>>) # <<>> )
        => LET resource == req[r].observations_data.entry[1].resource
           IN  /\ req[r].observation.resource_type
                      = Get(resource, "resourceType", "unknown")
               /\ req[r].observation.status = Get(resource, "status", "unknown")
               /\ req[r].observation.status # "empty"

\* C7: a request without a token, or with one that fails verification, is
\* answered 401 at once: it reads and writes nothing in the store, calls
\* the registry never, and leaves both tables as they were.
C7_UnauthorizedTouchesNothing ==
    \A r \in Requests :
        (req[r].kind # "none" /\ req[r].token # "valid")
        => /\ pc[r] = "done"
           /\ req[r].status = 401
           /\ req[r].effects = {}
           /\ patients = req[r].patients0
           /\ observations = req[r].observations0

C7_Witness ==
    \E r \in Requests :
        /\ IsImport(r) /\ req[r].token = "invalid" /\ req[r].status = 401
        /\ patients # <<>>

\* C8: an authenticated patient search with neither filter is answered 400
\* with the missing-filter message whatever the patient table holds, and
\* reads and writes nothing.
C8_NoFilterIs400 ==
    \A r \in Requests :
        ( /\ req[r].kind = "search_patients" /\ req[r].token = "valid"
          /\ req[r].patient_id = None /\ req[r].first_name = NoneName )
        => /\ req[r].status = 400
           /\ req[r].detail = "Either 'patient_id' or 'first_name' must be provided."
           /\ req[r].effects = {}
           /\ patients = req[r].patients0
           /\ observations = req[r].observations0

C8_Witness ==
    \E r \in Requests :
        /\ req[r].kind = "search_patients" /\ req[r].token = "valid"
        /\ req[r].patient_id = None /\ req[r].first_name = NoneName
        /\ req[r].status = 400
        /\ Len(patients) = 2

\* the stored rows that equal every filter given (an empty string is not a
\* filter)
Matching(patient_id, first_name) ==
    {p \in Rows(patients) :
        /\ Truthy(patient_id) => p.patient_id = patient_id
        /\ TruthyName(first_name) => p.first_name = first_name}

\* C9: an authenticated patient search with at least one filter answers 200
\* with exactly the rows that equal every filter given, each once, when
\* there are any, and 404 when there are none.
C9_SearchIsConjunctive ==
    \A r \in Requests :
        ( /\ req[r].kind = "search_patients" /\ req[r].token = "valid"
          /\ Truthy(req[r].patient_id) \/ TruthyName(req[r].first_name) )
        => LET match == Matching(req[r].patient_id, req[r].first_name)
           IN  IF match = {}
                   THEN req[r].status = 404 /\ req[r].body = <<>>
                   ELSE /\ req[r].status = 200
                        /\ Rows(req[r].body) = match
                        /\ Len(req[r].body) = Cardinality(match)

\* both filters given, one row equal to both and another equal to one only
C9_Witness ==
    \E r \in Requests :
        /\ req[r].kind = "search_patients" /\ req[r].token = "valid"
        /\ Truthy(req[r].patient_id) /\ TruthyName(req[r].first_name)
        /\ req[r].status = 200
        /\ Len(req[r].body) = 1
        /\ Len(patients) = 2
        /\ \E p \in Rows(patients) :
               p.patient_id # req[r].patient_id /\ p.first_name = req[r].first_name

\* C10: the insert is not conditional on the check still holding: a request
\* that found no row for an external id appends its row at its next step
\* (unless the store refuses the row for a missing column), even when
\* another request has stored that external id in between, so two imports
\* that both passed the check both insert.
C10_CheckThenAct ==
    [][\A r \in Requests :
          (pc[r] = "insert" /\ pc'[r] # "insert" /\ req'[r].failure = "none")
          => patients' = Append(patients,
                                req[r].patient @@ [id |-> Len(patients) + 1])]_vars

\* two patient rows with one external id
C10_Witness == ~NoDuplicateExternalId

====
